---- MODULE Spec2Model ----
(***************************************************************************)
(* A model of filechanges.py: the sqlite-backed change-state store, the    *)
(* directory scan, the change classifier (haschanged), the multi-folder    *)
(* orchestrator (run_filechanges) and the run loop (execute).              *)
(*                                                                         *)
(* File and directory names are sequences of one-character strings, so     *)
(* that startswith(".") and os.path.splitext are computed on the name.     *)
(* A path is a sequence of names.  An md5 digest is modelled as the tuple  *)
(* of the hashed text's parts (md5 is taken to be collision free).         *)
(***************************************************************************)
EXTENDS Integers, Sequences, FiniteSets, TLC

\* ------------------------------------------------------------------ bounds
MaxTouches == 1
MaxFaults == 1
MaxCycles == 2
MaxRows == 2
MaxCloses == 2
MaxScans == 2

\* ------------------------------------------------------- the file system
nA == <<"A">>
nB == <<"B">>
nW == <<"w">>
nSub == <<"s">>
nGit == <<".", "g">>
nAT == <<"a", ".", "t">>
nBT == <<"b", ".", "t">>
nCT == <<"c", ".", "t">>
nHT == <<".", "h", ".", "t">>
nTX == <<"t", ".", "x">>
nP == <<"p">>
extX == <<".", "x">>
extT == <<".", "t">>

dA == <<nA>>
dASub == <<nA, nSub>>
dAGit == <<nA, nGit>>
dB == <<nB>>
dW == <<nW>>

\* the directories that exist
Dirs == {dA, dASub, dAGit, dB, dW}

\* the directory entries that are not directories: path |-> is a regular file
fAT == <<nA, nAT>>
fSubBT == <<nA, nSub, nBT>>
fGitCT == <<nA, nGit, nCT>>
fHT == <<nA, nHT>>
fTX == <<nA, nTX>>
fBAT == <<nB, nAT>>
fBP == <<nB, nP>>
Entries == {fAT, fSubBT, fGitCT, fHT, fTX, fBAT, fBP}
Regular == Entries \ {fBP}
\* the files the environment modifies
Touched == {fAT, fSubBT}

Parent(p) == SubSeq(p, 1, Len(p) - 1)
BaseName(p) == p[Len(p)]
\* os.path.join(subdir, file)
Join(subdir, file) == Append(subdir, file)
\* os.path.isfile(origin)
IsFile(origin) == origin \in Regular

\* str.startswith(".")
StartsWithDot(n) == Len(n) > 0 /\ n[1] = "."

\* the index of the last "." of n, 0 when there is none (str.rfind)
RFindDot(n) == IF \E k \in 1..Len(n) : n[k] = "."
               THEN CHOOSE k \in 1..Len(n) : n[k] = "." /\ \A j \in (k+1)..Len(n) : n[j] # "."
               ELSE 0

\* os.path.splitext(file)[1]: the suffix from the last dot, provided a
\* character other than "." stands before that dot; otherwise empty
get_fileext(file) == LET d == RFindDot(file)
                     IN IF d > 0 /\ \E j \in 1..(d-1) : file[j] # "."
                        THEN SubSeq(file, d, Len(file))
                        ELSE <<>>

\* ------------------------------------------------------------- variables
VARIABLES
    \* the environment
    args,           \* sys.argv
    cwd,            \* the process working directory
    config,         \* the lines of filechanges.ini, or NoConfig when the file is missing
    dbAvail,        \* whether sqlite3.connect succeeds
    mtime,          \* the modification time of every directory entry
    touches,        \* how many modifications of files happened
    faultsLeft,     \* how many more sqlite errors the environment may raise
    \* the store: DB_CONN and the database file
    DB_CONN,        \* TRUE: a connection object, FALSE: None
    closes,         \* how many times a connection was closed
    db,             \* [table, idx, rows]: the "files" table of the database file
    \* execute, run_filechanges, check_filechanges
    pc,
    changes,        \* execute: changes
    cycles,         \* how many calls of run_filechanges have begun
    printed,        \* what execute printed after "Stopped..."
    ws,             \* the rows of the worksheet below the header
    saved,          \* whether wb.save was called
    changed,        \* run_filechanges: changed
    folders_exts,   \* run_filechanges: folders_exts
    i,              \* run_filechanges: i (1-based)
    exclude,        \* check_filechanges: exclude
    cchanged,       \* check_filechanges: changed
    stack,          \* os.walk: the directories still to walk, siblings as a set
    subdir,         \* check_filechanges: subdir
    files,          \* check_filechanges: the files of subdir not yet visited
    \* history
    last,           \* the last call of a store operation and its outcome
    classified,     \* the files passed to haschanged: full path, exclude and root of the scan
    seen,           \* name |-> modification time of the file last classified under it
    folderRes,      \* the results of check_filechanges in the current cycle
    emitted,        \* the classifications that returned true, in their order
    cycleFlags,     \* the values run_filechanges returned, in their order
    ret,            \* the last return of run_filechanges with its folder results
    scans           \* the scans of one file set made in several orders, with their outcomes

envVars == <<args, cwd, config, dbAvail, mtime, touches, faultsLeft>>
storeVars == <<DB_CONN, closes, db>>
runVars == <<pc, changes, cycles, printed, ws, saved, changed, folders_exts, i,
             exclude, cchanged, stack, subdir, files>>
histVars == <<last, classified, seen, folderRes, emitted, cycleFlags, ret, scans>>
vars == <<envVars, storeVars, runVars, histVars>>

\* ------------------------------------------------------------- the store
\* a digest: md5 of file + "|" + modification date
Md5(file, moddate) == <<file, "|", moddate>>

\* get_moddate(file): os.path.getmtime resolves the name against the working
\* directory; an OSError gives 0
get_moddate(file) == IF Join(cwd, file) \in Entries THEN mtime[Join(cwd, file)] ELSE 0

\* md5short(file)
md5short(file) == Md5(file, get_moddate(file))

\* the sqlite queries the program issues
Queries == {"select", "check", "create", "index", "insert", "update", "drop"}

EmptyDb == [table |-> FALSE, idx |-> FALSE, rows |-> <<>>]
\* the store as the functions below see it
Store == [conn |-> DB_CONN, closes |-> closes, db |-> db]

\* connect_db(): opens the connection when there is none; None when that fails
connect_db(S) == IF S.conn THEN S ELSE [S EXCEPT !.conn = dbAvail]

\* close_db()
close_db(S) == IF S.conn THEN [S EXCEPT !.conn = FALSE, !.closes = @ + 1] ELSE S

\* the effect of one statement on the database; an sqlite error leaves it as it is
Exec(d, q, file, md5) ==
    CASE q = "create" -> [d EXCEPT !.table = TRUE]
      [] q = "index"  -> IF d.table THEN [d EXCEPT !.idx = TRUE] ELSE d
      [] q = "insert" -> IF d.table
                         THEN [d EXCEPT !.rows = Append(@, [file |-> file, md5 |-> md5])]
                         ELSE d
      [] q = "update" -> IF d.table
                         THEN [d EXCEPT !.rows =
                                 [k \in 1..Len(@) |->
                                    IF @[k].file = file THEN [@[k] EXCEPT !.md5 = md5] ELSE @[k]]]
                         ELSE d
      [] q = "drop"   -> EmptyDb
      [] OTHER        -> d

\* query_database(query, args): no connection: returns; an sqlite error is
\* caught and printed; otherwise the statement is executed and committed
query_database(S, q, file, md5, faults) ==
    LET C == connect_db(S)
    IN IF ~C.conn THEN C
       ELSE IF q \in faults THEN C
       ELSE [C EXCEPT !.db = Exec(@, q, file, md5)]

\* fetch_database(query, args) for "SELECT md5 FROM files WHERE file=?":
\* False without a connection, 0 after an sqlite error, else the rows found
FetchMd5(S, file, faults) ==
    LET C == connect_db(S)
    IN IF ~C.conn THEN [kind |-> "False", rows |-> {}]
       ELSE IF "select" \in faults \/ ~C.db.table THEN [kind |-> "0", rows |-> {}]
       ELSE [kind |-> "list",
             rows |-> {C.db.rows[k].md5 : k \in {j \in 1..Len(C.db.rows) : C.db.rows[j].file = file}}]

\* md5indb(file)
md5indb(S, file, faults) == FetchMd5(S, file, faults)

\* check_table(table): len() of the fetch result; len(False) and len(0) raise TypeError
check_table(S, faults) ==
    LET C == connect_db(S)
    IN IF ~C.conn \/ "check" \in faults THEN "TypeError"
       ELSE IF C.db.table THEN "1" ELSE "0"

\* insert_hashtable(file, md5)
insert_hashtable(S, file, md5, faults) == query_database(S, "insert", file, md5, faults)

\* create_hashtable(), create_hashtable_idx(), delete_table()
create_hashtable(S, faults) == query_database(S, "create", <<>>, <<>>, faults)
create_hashtable_idx(S, faults) == query_database(S, "index", <<>>, <<>>, faults)
delete_table(S, faults) == query_database(S, "drop", <<>>, <<>>, faults)

\* setup_hashtable(file, md5)
setup_hashtable(S, file, md5, faults) ==
    insert_hashtable(create_hashtable_idx(create_hashtable(S, faults), faults), file, md5, faults)

\* update_hashtable(file, md5): [S: the store afterwards, raised: a TypeError escaped]
update_hashtable(S, file, md5, faults) ==
    LET t == check_table(S, faults)
        C == connect_db(S)
    IN IF t = "TypeError" THEN [S |-> C, raised |-> TRUE]
       ELSE IF t = "1" THEN [S |-> query_database(C, "update", file, md5, faults), raised |-> FALSE]
       ELSE [S |-> setup_hashtable(C, file, md5, faults), raised |-> FALSE]

\* the queries a call of haschanged that took the branch runs, given those that fail
Executed(S, branch, faults) ==
    IF ~connect_db(S).conn THEN {}
    ELSE CASE branch = "NEW" -> {"select", "insert"}
           [] branch = "CHANGED" -> {"select", "check"} \cup (IF "check" \in faults THEN {} ELSE {"update"})
           [] OTHER -> {"select"}

\* haschanged(file, md5); cur is the md5 of the first row the SELECT returned
\* (the order of the rows of a SELECT without ORDER BY is not defined).
\* [S, ret: the value returned, branch: NEW/CHANGED/UNCHANGED, raised]
FirstRows(f) == IF f.rows = {} THEN {<<>>} ELSE f.rows
haschanged(S, file, md5, faults, cur) ==
    LET current_md5 == md5indb(S, file, faults)
        C == connect_db(S)
    IN IF current_md5.rows = {}
       THEN [S |-> insert_hashtable(C, file, md5, faults), ret |-> TRUE,
             branch |-> "NEW", raised |-> FALSE]
       ELSE IF cur # md5
       THEN LET u == update_hashtable(C, file, md5, faults)
            IN [S |-> u.S, ret |-> ~u.raised, branch |-> "CHANGED", raised |-> u.raised]
       ELSE [S |-> C, ret |-> FALSE, branch |-> "UNCHANGED", raised |-> FALSE]

\* ------------------------------------------------------ the configuration
Range(q) == {q[k] : k \in 1..Len(q)}

\* a line of filechanges.ini after strip() and split("|"): the path, whether
\* the line holds a "|", and the text after it split at ","
Line(rel, comps, bar, exts) == [rel |-> rel, comps |-> comps, bar |-> bar, exts |-> exts]

\* os.path.abspath
abspath(l) == IF l.rel THEN cwd \o l.comps ELSE l.comps

RECURSIVE LoadLines(_, _, _)
LoadLines(lines, folders, extensions) ==
    IF lines = <<>> THEN <<folders, extensions>>
    ELSE LET line == Head(lines)
             folder_path == abspath(line)
             f2 == IF folder_path \in Range(folders) THEN folders ELSE Append(folders, folder_path)
             e2 == IF line.bar
                   THEN IF Len(line.exts) > 0 THEN Append(extensions, line.exts) ELSE extensions
                   ELSE Append(extensions, <<>>)
         IN LoadLines(Tail(lines), f2, e2)

\* without the configuration file the working directory is scanned
load_folders_DefaultCwd ==
    IF config.exists THEN LoadLines(config.lines, <<>>, <<>>) ELSE << <<cwd>>, << <<>> >> >>

\* load_folders(): <<folders, extensions>>
load_folders == IF config.exists THEN LoadLines(config.lines, <<>>, <<>>) ELSE << <<>>, <<>> >>

\* the configurations considered
Configs ==
    { [exists |-> FALSE, lines |-> <<>>],
      [exists |-> TRUE, lines |-> <<Line(FALSE, dA, TRUE, <<extX>>), Line(FALSE, dB, FALSE, <<>>)>>],
      [exists |-> TRUE, lines |-> <<Line(FALSE, dA, FALSE, <<>>), Line(FALSE, dW, FALSE, <<>>)>>],
      [exists |-> TRUE, lines |-> <<Line(FALSE, dA, FALSE, <<>>), Line(FALSE, dA, TRUE, <<extT>>),
                                    Line(FALSE, dB, TRUE, <<extX>>)>>],
      [exists |-> TRUE, lines |-> <<Line(FALSE, dA, TRUE, <<>>), Line(FALSE, dB, TRUE, <<extX>>)>>],
      [exists |-> TRUE, lines |-> <<Line(TRUE, <<nSub>>, TRUE, <<extX>>)>>] }

\* the command lines considered, and str.lower on their second word
Args == { <<"fc">>, <<"fc", "--Loop">>, <<"fc", "-v">> }
Lower(w) == IF w = "--Loop" THEN "--loop" ELSE w
Looping == Len(args) > 1 /\ Lower(args[2]) = "--loop"

\* ------------------------------------------------------------ the report
\* a worksheet is the sequence of its rows, columns A, B, C (the date and the
\* time of columns D, E are left out); a cell without value is None
None == <<>>
NoSheet == <<>>
Header == [a |-> <<"File Name">>, b |-> <<"Full File Name">>, c |-> <<"Folder Name">>]

\* start_xlsreport(): a workbook whose sheet holds the header
start_xlsreport == <<Header>>

\* the row count not advanced past the last row: the last row is overwritten
get_lastrow_Last(sheet) == Len(sheet)

\* get_lastrow(ws): the first row of column A without a value
get_lastrow(sheet) ==
    IF \E k \in 1..Len(sheet) : sheet[k].a = None
    THEN CHOOSE k \in 1..Len(sheet) : sheet[k].a = None /\ \A j \in 1..(k-1) : sheet[j].a # None
    ELSE Len(sheet) + 1

\* row_xlsreport(ws, file, ffilename, folder, d, t)
row_xlsreport(sheet, file, ffilename, folder) ==
    LET row == get_lastrow(sheet)
        cells == [a |-> file, b |-> ffilename, c |-> folder]
    IN IF row > Len(sheet) THEN Append(sheet, cells) ELSE [sheet EXCEPT ![row] = cells]

\* ---------------------------------------------------------------- Init
\* the table an earlier run left: that run scanned folder A from a working
\* directory without the files, so every digest is that of modification date 0
SeedDb == [table |-> TRUE, idx |-> FALSE,
           rows |-> << [file |-> nAT, md5 |-> Md5(nAT, 0)], [file |-> nTX, md5 |-> Md5(nTX, 0)],
                       [file |-> nBT, md5 |-> Md5(nBT, 0)] >>]
\* the database files a run starts from (what a file that cannot be opened
\* holds is of no account)
InitDbs == {EmptyDb, [table |-> TRUE, idx |-> FALSE, rows |-> <<>>], SeedDb}

Names == {BaseName(e) : e \in Entries}
NoCall == [op |-> "none", file |-> <<>>, origin |-> <<>>, md5 |-> <<>>, mt |-> 0, prev |-> 0,
           branch |-> "none", ret |-> FALSE, faults |-> {}, before |-> EmptyDb,
           raised |-> FALSE, sheet |-> 0, cycle |-> 0]

Init ==
    /\ args \in Args
    /\ cwd \in {dA, dW}
    /\ config \in Configs
    /\ dbAvail \in BOOLEAN
    /\ mtime = [e \in Entries |-> 1]
    /\ touches = 0
    /\ faultsLeft = MaxFaults
    /\ DB_CONN = FALSE
    /\ closes = 0
    /\ db \in (IF dbAvail THEN InitDbs ELSE {EmptyDb})
    /\ pc = "start"
    /\ changes = 0
    /\ cycles = 0
    /\ printed = <<>>
    /\ ws = NoSheet
    /\ saved = FALSE
    /\ changed = FALSE
    /\ folders_exts = << <<>>, <<>> >>
    /\ i = 1
    /\ exclude = <<>>
    /\ cchanged = FALSE
    /\ stack = <<>>
    /\ subdir = <<>>
    /\ files = {}
    /\ last = NoCall
    /\ classified = {}
    /\ seen = [n \in Names |-> 0]
    /\ folderRes = <<>>
    /\ emitted = <<>>
    /\ cycleFlags = <<>>
    /\ ret = [returned |-> FALSE, value |-> FALSE, results |-> <<>>]
    /\ scans = <<>>

\* -------------------------------------------------------------- actions
SetStore(S) ==
    /\ DB_CONN' = S.conn
    /\ closes' = S.closes
    /\ db' = S.db

\* execute(args) up to the first call of run_filechanges
Execute ==
    /\ pc = "start"
    /\ IF Len(args) > 1 /\ ~Looping
       THEN pc' = "done" /\ ws' = ws
       ELSE pc' = "cycle" /\ ws' = start_xlsreport
    /\ UNCHANGED <<envVars, storeVars, histVars, changes, cycles, printed, saved, changed,
                   folders_exts, i, exclude, cchanged, stack, subdir, files>>

\* run_filechanges(ws) up to its loop
RunFilechanges ==
    /\ pc = "cycle"
    /\ cycles < MaxCycles
    /\ cycles' = cycles + 1
    /\ changed' = FALSE
    /\ folders_exts' = load_folders
    /\ i' = 1
    /\ folderRes' = <<>>
    /\ pc' = "folder"
    /\ UNCHANGED <<envVars, storeVars, changes, printed, ws, saved, exclude, cchanged, stack,
                   subdir, files, last, classified, seen, emitted, cycleFlags, scans, ret>>

\* the next iteration of run_filechanges' loop: exts[i] raises IndexError when
\* the extension list is shorter; else check_filechanges begins its walk
CheckFilechanges ==
    /\ pc = "folder"
    /\ i <= Len(folders_exts[1])
    /\ IF i > Len(folders_exts[2])
       THEN /\ pc' = "crashed"
            /\ UNCHANGED <<exclude, cchanged, stack, files>>
       ELSE /\ pc' = "walk"
            /\ exclude' = folders_exts[2][i]
            /\ cchanged' = FALSE
            /\ stack' = IF folders_exts[1][i] \in Dirs THEN << {folders_exts[1][i]} >> ELSE <<>>
            /\ files' = {}
    /\ UNCHANGED <<envVars, storeVars, histVars, changes, cycles, printed, ws, saved, changed,
                   folders_exts, i, subdir>>

\* the directory filter left out: every subdirectory is walked
WalkDirs_KeepHidden(d) == {x \in Dirs : Len(x) > 1 /\ Parent(x) = d}

\* dirs[:] = [d for d in dirs if not d.startswith(".")], as full paths
WalkDirs(d) == {x \in Dirs : Len(x) > 1 /\ Parent(x) = d /\ ~StartsWithDot(BaseName(x))}

\* files[:] = [f for f in files if not f.startswith(".")]
WalkFiles(d) == {BaseName(e) : e \in {x \in Entries : Parent(x) = d /\ ~StartsWithDot(BaseName(x))}}

\* os.walk yields the next directory; the hidden directories and files are
\* dropped from dirs and files
WalkDir ==
    /\ pc = "walk"
    /\ files = {}
    /\ stack # <<>>
    /\ \E d \in Head(stack) :
         LET rest == Head(stack) \ {d}
             dirs == WalkDirs(d)
         IN /\ subdir' = d
            /\ files' = WalkFiles(d)
            /\ stack' = (IF dirs # {} THEN <<dirs>> ELSE <<>>)
                        \o (IF rest # {} THEN <<rest>> ELSE <<>>) \o Tail(stack)
    /\ UNCHANGED <<envVars, storeVars, histVars, pc, changes, cycles, printed, ws, saved,
                   changed, folders_exts, i, exclude, cchanged>>

\* the test of the extension left out
Eligible_IgnoreExclude(origin, file, excl) == IsFile(origin)

\* whether the body of check_filechanges' inner loop classifies the file
Eligible(origin, file, excl) == IsFile(origin) /\ get_fileext(file) \notin Range(excl)

\* one iteration of check_filechanges' inner loop
VisitFile ==
    /\ pc = "walk"
    /\ \E file \in files :
         LET origin == Join(subdir, file)
         IN /\ files' \in {files \ {file}}
            /\ IF Eligible(origin, file, exclude)
               THEN \E faults \in SUBSET {"select", "check", "insert", "update"} :
                      /\ Cardinality(faults) <= faultsLeft
                      /\ \E cur \in FirstRows(md5indb(Store, file, faults)) :
                           LET md5 == md5short(file)
                               r == haschanged(Store, file, md5, faults, cur)
                           IN /\ faults \subseteq Executed(Store, r.branch, faults)
                              /\ SetStore(r.S)
                              /\ faultsLeft' = faultsLeft - Cardinality(faults)
                              /\ ws' = IF r.ret THEN row_xlsreport(ws, file, origin, subdir) ELSE ws
                              /\ cchanged' = (cchanged \/ r.ret)
                              /\ pc' = IF r.raised THEN "crashed" ELSE pc
                              /\ last' = [op |-> "haschanged", file |-> file, origin |-> origin,
                                          md5 |-> md5, mt |-> mtime[origin], prev |-> seen[file],
                                          branch |-> r.branch, ret |-> r.ret, faults |-> faults,
                                          before |-> db, raised |-> r.raised, sheet |-> Len(ws),
                                          cycle |-> cycles]
                              /\ emitted' = IF r.ret
                                            THEN Append(emitted, [a |-> file, b |-> origin, c |-> subdir])
                                            ELSE emitted
                              /\ classified' = classified \cup
                                   {[origin |-> origin, exclude |-> exclude,
                                     root |-> folders_exts[1][i]]}
                              /\ seen' = [seen EXCEPT ![file] = mtime[origin]]
               ELSE UNCHANGED <<storeVars, faultsLeft, ws, cchanged, pc, last, classified, seen,
                                emitted>>
    /\ UNCHANGED <<args, cwd, config, dbAvail, mtime, touches, changes, cycles, printed, saved,
                   changed, folders_exts, i, exclude, stack, subdir, folderRes, cycleFlags, scans, ret>>

\* check_filechanges returns; run_filechanges assigns the result to changed
EndWalk ==
    /\ pc = "walk"
    /\ files = {}
    /\ stack = <<>>
    /\ changed' = cchanged
    /\ folderRes' = Append(folderRes, cchanged)
    /\ i' = i + 1
    /\ pc' = "folder"
    /\ UNCHANGED <<envVars, storeVars, changes, cycles, printed, ws, saved, folders_exts,
                   exclude, cchanged, stack, subdir, files, last, classified, seen, emitted,
                   cycleFlags, scans, ret>>

\* the count left out of the test: every cycle is counted
CountCycle_Always(c, flag) == c + 1

\* if run_filechanges(ws): changes += 1
CountCycle(c, flag) == IF flag THEN c + 1 ELSE c

\* run_filechanges returns changed to execute: the loop counts it; a single
\* run ends the report (wb.save, close_db) when it is true
ReturnRun ==
    /\ pc = "folder"
    /\ i > Len(folders_exts[1])
    /\ ret' = [returned |-> TRUE, value |-> changed, results |-> folderRes]
    /\ cycleFlags' = Append(cycleFlags, changed)
    /\ IF Looping
       THEN /\ changes' = CountCycle(changes, changed)
            /\ pc' = "cycle"
            /\ UNCHANGED <<saved, storeVars>>
       ELSE /\ pc' = "done"
            /\ changes' = changes
            /\ saved' = (saved \/ changed)
            /\ SetStore(IF changed THEN close_db(Store) ELSE Store)
    /\ UNCHANGED <<envVars, cycles, printed, ws, changed, folders_exts, i, exclude, cchanged,
                   stack, subdir, files, last, classified, seen, folderRes, emitted,
                   scans>>

\* KeyboardInterrupt inside the try of the --loop branch
KeyboardInterrupt ==
    /\ Looping
    /\ pc \in {"cycle", "folder", "walk"}
    /\ pc' = "stopped"
    /\ printed' = IF changes > 0 THEN <<changes>> ELSE <<>>
    /\ UNCHANGED <<envVars, storeVars, histVars, changes, cycles, ws, saved, changed,
                   folders_exts, i, exclude, cchanged, stack, subdir, files>>

\* the environment modifies a file; a modification during the walk of a folder
\* is taken at the walk's begin or end (no two files of one folder share a
\* name, so it commutes with the visits of the other files)
Touch ==
    /\ pc \in {"cycle", "folder"}
    /\ touches < MaxTouches
    /\ \E e \in Touched : mtime' = [mtime EXCEPT ![e] = @ + 1]
    /\ touches' = touches + 1
    /\ UNCHANGED <<args, cwd, config, dbAvail, faultsLeft, storeVars, runVars, histVars>>

Next ==
    \/ Execute
    \/ RunFilechanges
    \/ CheckFilechanges
    \/ WalkDir
    \/ VisitFile
    \/ EndWalk
    \/ ReturnRun
    \/ KeyboardInterrupt
    \/ Touch

Spec == Init /\ [][Next]_vars

\* ------------------------------------------ the store operations on their own
StoreFiles == {nAT, nBT}
StoreMods == {1, 2}

InitStore ==
    /\ args = <<"fc">>
    /\ cwd = dW
    /\ config = [exists |-> FALSE, lines |-> <<>>]
    /\ dbAvail \in BOOLEAN
    /\ mtime = [e \in Entries |-> 1]
    /\ touches = 0
    /\ faultsLeft = MaxFaults
    /\ DB_CONN = FALSE
    /\ closes = 0
    /\ db \in {EmptyDb, [table |-> TRUE, idx |-> FALSE, rows |-> <<>>]}
    /\ pc = "api"
    /\ changes = 0
    /\ cycles = 0
    /\ printed = <<>>
    /\ ws = NoSheet
    /\ saved = FALSE
    /\ changed = FALSE
    /\ folders_exts = << <<>>, <<>> >>
    /\ i = 1
    /\ exclude = <<>>
    /\ cchanged = FALSE
    /\ stack = <<>>
    /\ subdir = <<>>
    /\ files = {}
    /\ last = NoCall
    /\ classified = {}
    /\ seen = [n \in Names |-> 0]
    /\ folderRes = <<>>
    /\ emitted = <<>>
    /\ cycleFlags = <<>>
    /\ ret = [returned |-> FALSE, value |-> FALSE, results |-> <<>>]
    /\ scans = <<>>

\* a call of a store operation with the sqlite errors the environment raises in it
Call(op, file, md5, faults, S, branch, result, raised) ==
    /\ pc = "api"
    /\ Cardinality(faults) <= faultsLeft
    /\ Len(S.db.rows) <= MaxRows
    /\ S.closes <= MaxCloses
    /\ faultsLeft' = faultsLeft - Cardinality(faults)
    /\ SetStore(S)
    /\ last' = [op |-> op, file |-> file, origin |-> <<>>, md5 |-> md5, mt |-> 0, prev |-> 0,
                branch |-> branch, ret |-> result, faults |-> faults, before |-> db,
                raised |-> raised, sheet |-> 0, cycle |-> 0]
    /\ UNCHANGED <<args, cwd, config, dbAvail, mtime, touches, runVars, classified, seen,
                   folderRes, emitted, cycleFlags, scans, ret>>

CallUpdate ==
    \E file \in StoreFiles, m \in StoreMods, faults \in SUBSET {"check", "update", "create", "index", "insert"} :
      LET u == update_hashtable(Store, file, Md5(file, m), faults)
      IN Call("update_hashtable", file, Md5(file, m), faults, u.S, "none", FALSE, u.raised)

CallInsert ==
    \E file \in StoreFiles, m \in StoreMods, faults \in SUBSET {"insert"} :
      Call("insert_hashtable", file, Md5(file, m), faults,
           insert_hashtable(Store, file, Md5(file, m), faults), "none", FALSE, FALSE)

CallHaschanged ==
    \E file \in StoreFiles, m \in StoreMods, faults \in SUBSET {"select", "check", "insert", "update"} :
      \E cur \in FirstRows(md5indb(Store, file, faults)) :
        LET r == haschanged(Store, file, Md5(file, m), faults, cur)
        IN /\ faults \subseteq Executed(Store, r.branch, faults)
           /\ Call("haschanged", file, Md5(file, m), faults, r.S, r.branch, r.ret, r.raised)

CallCreate ==
    \E faults \in SUBSET {"create"} :
      Call("create_hashtable", <<>>, <<>>, faults, create_hashtable(Store, faults), "none", FALSE, FALSE)

CallDelete ==
    \E faults \in SUBSET {"drop"} :
      Call("delete_table", <<>>, <<>>, faults, delete_table(Store, faults), "none", FALSE, FALSE)

CallClose == Call("close_db", <<>>, <<>>, {}, close_db(Store), "none", FALSE, FALSE)

NextStore ==
    \/ CallUpdate
    \/ CallInsert
    \/ CallHaschanged
    \/ CallCreate
    \/ CallDelete
    \/ CallClose

SpecStore == InitStore /\ [][NextStore]_vars

\* ------------------------------- the scan of a set of files in any order
\* the files scanned: two of them bear one name in two folders
OrderFiles == {fAT, fBAT, fTX}

\* the orders in which os.walk may yield a set of these files
Orders ==
    {q \in UNION {[1..n -> OrderFiles] : n \in 1..Cardinality(OrderFiles)} :
       \A j \in DOMAIN q : \A k \in DOMAIN q : q[j] = q[k] => j = k}

\* the body of check_filechanges' inner loop applied to the files in the
\* given order, none excluded and no sqlite error raised: the set of outcomes
\* (the store and the report sheet) it can end in
RECURSIVE ScanFiles(_, _, _)
ScanFiles(order, S, sheet) ==
    IF order = <<>> THEN {[S |-> S, sheet |-> sheet]}
    ELSE LET origin == Head(order)
             file == BaseName(origin)
         IN IF ~Eligible(origin, file, <<>>) THEN ScanFiles(Tail(order), S, sheet)
            ELSE UNION { LET r == haschanged(S, file, md5short(file), {}, cur)
                         IN ScanFiles(Tail(order), r.S,
                                      IF r.ret
                                      THEN row_xlsreport(sheet, file, origin, Parent(origin))
                                      ELSE sheet)
                         : cur \in FirstRows(md5indb(S, file, {})) }

InitOrder ==
    /\ args = <<"fc">>
    /\ cwd \in {dA, dB, dW}
    /\ config = [exists |-> FALSE, lines |-> <<>>]
    /\ dbAvail = TRUE
    /\ mtime = [e \in Entries |-> 1]
    /\ touches = 0
    /\ faultsLeft = MaxFaults
    /\ DB_CONN = FALSE
    /\ closes = 0
    /\ db \in InitDbs
    /\ pc = "order"
    /\ changes = 0
    /\ cycles = 0
    /\ printed = <<>>
    /\ ws = NoSheet
    /\ saved = FALSE
    /\ changed = FALSE
    /\ folders_exts = << <<>>, <<>> >>
    /\ i = 1
    /\ exclude = <<>>
    /\ cchanged = FALSE
    /\ stack = <<>>
    /\ subdir = <<>>
    /\ files = {}
    /\ last = NoCall
    /\ classified = {}
    /\ seen = [n \in Names |-> 0]
    /\ folderRes = <<>>
    /\ emitted = <<>>
    /\ cycleFlags = <<>>
    /\ ret = [returned |-> FALSE, value |-> FALSE, results |-> <<>>]
    /\ scans = <<>>

\* one scan of some of the files in some order, begun with the store and the
\* file system of the initial state; its outcome is recorded: the records the
\* table holds and the rows the report got below its header
ScanInOrder ==
    /\ pc = "order"
    /\ Len(scans) < MaxScans
    /\ \E order \in Orders :
         \E o \in ScanFiles(order, Store, start_xlsreport) :
           scans' = Append(scans, [order |-> order,
                                   table |-> o.S.db.table,
                                   records |-> Range(o.S.db.rows),
                                   events |-> {o.sheet[k] : k \in 2..Len(o.sheet)}])
    /\ UNCHANGED <<envVars, storeVars, runVars, last, classified, seen, folderRes, emitted,
                   cycleFlags, ret>>

NextOrder == ScanInOrder

SpecOrder == InitOrder /\ [][NextOrder]_vars

\* ------------------------------------------------------------ the claims
\* the number of records the table holds for a name
Records(d, n) == Cardinality({k \in 1..Len(d.rows) : d.rows[k].file = n})
HasRecord(d, n, md5) == \E k \in 1..Len(d.rows) : d.rows[k] = [file |-> n, md5 |-> md5]
Classifying == last.op = "haschanged"
\* the connection can be opened and no sqlite error has been raised so far
NoFaultYet == dbAvail /\ faultsLeft = MaxFaults
\* the last call was a classification, and no fault has occurred
Clean == Classifying /\ NoFaultYet
\* the last classification appended a row to the report
Reported == Len(ws) > last.sheet
ClassifiedNames == {BaseName(c.origin) : c \in classified}

\* the name belongs to one file of the tree only
UniqueName(n) == Cardinality({e \in Entries : BaseName(e) = n}) = 1

\* C1: for a file whose name no other file bears: its first classification
\* returns NEW and leaves a record of the name; one while its modification
\* time is the one last classified returns UNCHANGED and writes nothing; one
\* after the modification time changed returns CHANGED and leaves the
\* fingerprint of the new modification time in the record.
C1_Classification ==
    (Clean /\ UniqueName(last.file)) =>
      /\ (last.prev = 0 /\ Records(last.before, last.file) = 0) =>
           last.branch = "NEW" /\ last.ret /\ HasRecord(db, last.file, Md5(last.file, last.mt))
      /\ (last.prev # 0 /\ last.prev = last.mt) =>
           last.branch = "UNCHANGED" /\ ~last.ret /\ db = last.before
      /\ (last.prev # 0 /\ last.prev # last.mt) =>
           last.branch = "CHANGED" /\ last.ret /\ HasRecord(db, last.file, Md5(last.file, last.mt))

\* C2: while no sqlite error was raised, the table holds exactly one record
\* for every name classified and never two records with the same name.
C2_OneRecordPerName ==
    NoFaultYet =>
      /\ \A n \in Names : Records(db, n) <= 1
      /\ \A n \in ClassifiedNames : Records(db, n) = 1

\* C3: the value run_filechanges returns is the disjunction of the results
\* of check_filechanges for the folders of the cycle.
C3_CycleFlagIsOr ==
    ret.returned => (ret.value = (\E k \in 1..Len(ret.results) : ret.results[k]))

\* C4: after KeyboardInterrupt in --loop mode a connection that was opened
\* has been closed exactly once and the count of changed cycles was printed.
C4_InterruptCleanup ==
    (pc = "stopped" /\ (DB_CONN \/ closes > 0)) =>
      closes = 1 /\ ~DB_CONN /\ printed = <<changes>>

\* C5: the first classification on a database without the table creates the
\* table and its index and stores the record of the file.
C5_LazyTable ==
    (Clean /\ ~last.before.table) =>
      db.table /\ db.idx /\ HasRecord(db, last.file, last.md5)

\* C6: update_hashtable for a name without record leaves the record
\* (name, md5), whether the table is missing or has no row for the name.
C6_UpdateInserts ==
    (last.op = "update_hashtable" /\ last.faults = {} /\ dbAvail /\ Records(last.before, last.file) = 0) =>
      HasRecord(db, last.file, last.md5)

\* C7: no file whose extension is in the exclude list of the scan is passed to
\* haschanged; every row of the report, and every row of the table that the
\* run did not start with, stems from a file that was passed to it.
C7_ExcludedNeverClassified ==
    /\ \A c \in classified : get_fileext(BaseName(c.origin)) \notin Range(c.exclude)
    /\ \A k \in 2..Len(ws) : \E c \in classified : c.origin = ws[k].b
    /\ \A k \in 1..Len(db.rows) : db.rows[k] \in Range(SeedDb.rows) \/ db.rows[k].file \in ClassifiedNames

\* a state in which folder A was scanned to its end with .x excluded: t.x was
\* visited and a.t classified
C7_Witness ==
    /\ pc = "walk" /\ files = {} /\ stack = <<>> /\ exclude = <<extX>>
    /\ folders_exts[1][i] = dA
    /\ \E c \in classified : c.origin = fAT /\ c.exclude = <<extX>>
    /\ nTX \in WalkFiles(dA)

\* the names of path p below the root
Below(root, p) == {p[k] : k \in (Len(root) + 1)..Len(p)}
NoHidden(root, p) == \A n \in Below(root, p) : ~StartsWithDot(n)

\* C8: the walk enters no directory below the root whose name starts with
\* "." and no file is classified or reported whose name, or the name of one of
\* its directories below the root, starts with ".".
C8_HiddenNeverScanned ==
    /\ \A c \in classified : NoHidden(c.root, c.origin)
    /\ pc = "walk" =>
         /\ subdir # <<>> /\ files # {} => NoHidden(folders_exts[1][i], subdir)
         /\ \A k \in 1..Len(stack) : \A d \in stack[k] : NoHidden(folders_exts[1][i], d)
    /\ \A k \in 2..Len(ws) : \E c \in classified : c.origin = ws[k].b /\ NoHidden(c.root, c.origin)

\* a state in which the walk of folder A is over: its directory s was
\* walked, and A holds the hidden directory .g and the hidden file .h.t
C8_Witness ==
    /\ pc = "walk" /\ files = {} /\ stack = <<>> /\ subdir = dASub
    /\ folders_exts[1][i] = dA
    /\ \E c \in classified : c.origin = fSubBT
    /\ dAGit \in Dirs /\ fGitCT \in Regular /\ fHT \in Regular

\* C9: without a store connection no file is classified and no row reported.
C9_NoConnectionNoScan ==
    ~dbAvail => classified = {} /\ Len(ws) <= 1

\* the last classification ran a query that raised an sqlite error
FaultHit == Classifying /\ last.faults # {}

\* C10: a classification in which a query failed does not return true, adds
\* no row to the report and does not end the cycle.
C10_FaultSkipsFile ==
    FaultHit => ~last.ret /\ ~Reported /\ ~last.raised /\ pc # "crashed"

\* C11: a classification that returns NEW or CHANGED appends one row to the
\* report and one that returns UNCHANGED appends none; the rows below the
\* header are the classifications that returned true, in their order, none
\* overwritten.
C11_RowsInOrder ==
    /\ ws # NoSheet => ws = <<Header>> \o emitted
    /\ (Classifying /\ ~last.raised) =>
         /\ last.branch \in {"NEW", "CHANGED"} => Len(ws) = last.sheet + 1
         /\ last.branch = "UNCHANGED" => Len(ws) = last.sheet

\* a state after a classification that returned UNCHANGED with two rows in
\* the report from classifications before it
C11_Witness ==
    /\ Classifying /\ last.branch = "UNCHANGED"
    /\ Len(ws) >= 3 /\ ws[2].b # ws[3].b

\* execute has returned from a run without --loop
SingleDone == pc = "done" /\ Len(args) = 1

\* C12: when a run without --loop emitted a change event, the report has
\* been saved by the time execute returns.
C12_ReportSaved ==
    (SingleDone /\ emitted # <<>>) => saved

\* C13: when execute returns from a run without --loop, the connection is
\* closed, whether the cycle reported a change or not.
C13_ConnectionClosed ==
    SingleDone => ~DB_CONN

\* C14: without a configuration file load_folders yields no folder, and
\* run_filechanges returns false without classifying a file, calling a store
\* function or writing a report row.
C14_NoConfigNoOp ==
    ~config.exists =>
      /\ cycles > 0 => folders_exts = << <<>>, <<>> >>
      /\ \A k \in 1..Len(cycleFlags) : ~cycleFlags[k]
      /\ classified = {} /\ emitted = <<>> /\ Len(ws) <= 1
      /\ last = NoCall /\ ~DB_CONN /\ db \in InitDbs
      /\ pc # "crashed"

\* a state after run_filechanges returned in a run without configuration file
C14_Witness == ~config.exists /\ Len(cycleFlags) >= 1 /\ ret.returned

\* C15: the digest handed to the classifier is the one of the file's name and
\* of the modification time of the file at its full path, wherever the file
\* lies below the root and whatever the working directory is; hence a scan
\* after the file was modified computes a digest other than the one before.
C15_DigestOfFullPath ==
    Classifying =>
      /\ last.md5 = Md5(last.file, last.mt)
      /\ (last.prev # 0 /\ last.prev # last.mt) => last.md5 # Md5(last.file, last.prev)

\* C16: the loop stops at a cycle boundary only: when KeyboardInterrupt has
\* ended the loop, no cycle is left with some of its files classified and
\* others, or other folders, not yet scanned.
C16_StopAtBoundary ==
    pc = "stopped" =>
      ~ /\ Len(cycleFlags) < cycles
        /\ Classifying /\ last.cycle = cycles
        /\ (files # {} \/ stack # <<>> \/ i < Len(folders_exts[1]))

\* the extensions a line of the configuration excludes
LineExts(line) == IF line.bar THEN line.exts ELSE <<>>

\* C17: the two lists load_folders returns have the same length, position k
\* of both stems from one line of the configuration, no folder is listed
\* twice, and every file is classified under the extensions of its folder's
\* line.
C17_ListsAligned ==
    (cycles > 0 /\ config.exists) =>
      LET folders == folders_exts[1]
          extensions == folders_exts[2]
      IN /\ Len(folders) = Len(extensions)
         /\ \A k \in 1..Len(folders) : \A j \in 1..Len(folders) :
              folders[k] = folders[j] => k = j
         /\ \A k \in 1..Len(folders) : k <= Len(extensions) =>
              \E j \in 1..Len(config.lines) :
                /\ abspath(config.lines[j]) = folders[k]
                /\ LineExts(config.lines[j]) = extensions[k]
         /\ \A c \in classified :
              \E j \in 1..Len(config.lines) :
                /\ abspath(config.lines[j]) = c.root
                /\ LineExts(config.lines[j]) = c.exclude

\* the cycles run_filechanges completed with a true result
ChangedCycles == {k \in 1..Len(cycleFlags) : cycleFlags[k]}

\* C19: with --loop, whenever the loop is between two cycles, changes is the
\* number of completed cycles for which run_filechanges returned true: it
\* grows by one after such a cycle and stays after a cycle that returned false.
C19_CounterCountsChanged ==
    (Looping /\ pc = "cycle") => changes = Cardinality(ChangedCycles)

\* two cycles are complete, one of them returned true and one false
C19_Witness ==
    /\ Looping /\ pc = "cycle"
    /\ Len(cycleFlags) = 2 /\ Cardinality(ChangedCycles) = 1 /\ changes = 1

\* C20: with --loop and no file modified after the first cycle, a
\* classification in a later cycle returns false, leaves the store as it was
\* and writes no report row, and a later cycle is not counted; whatever the
\* store held at the start.
C20_Quiescence ==
    (Looping /\ NoFaultYet /\ touches = 0) =>
      /\ (Classifying /\ last.cycle >= 2) =>
           ~last.ret /\ db = last.before /\ ~Reported
      /\ \A k \in 2..Len(cycleFlags) : ~cycleFlags[k]
      /\ (Len(cycleFlags) >= 1 /\ pc \in {"cycle", "folder", "walk"}) =>
           changes = (IF cycleFlags[1] THEN 1 ELSE 0)

\* two recorded scans visited the same files
SameFiles(j, k) == Range(scans[j].order) = Range(scans[k].order)

\* C18: two scans of the same set of files, begun in the same store and file
\* system and made in any two orders, end with the same records in the table
\* and report the same set of changes (file name and full path).
C18_OrderIndependent ==
    \A j \in 1..Len(scans) : \A k \in 1..Len(scans) :
      SameFiles(j, k) =>
        /\ scans[j].table = scans[k].table
        /\ scans[j].records = scans[k].records
        /\ scans[j].events = scans[k].events

====
